---------------------------- MODULE Spec2Model ----------------------------
(***************************************************************************)
(* A model of src/utils/statusline.ts: the status line renderer of         *)
(* claude-code-router.                                                     *)
(*                                                                         *)
(* Strings are sequences of atoms.  An atom is a record [k, s, c]: a text  *)
(* chunk, a formatted number, or one ANSI escape sequence.  The empty      *)
(* string is << >>, string concatenation is \o, and a string is falsy in   *)
(* the JavaScript sense exactly when it is << >>.                          *)
(***************************************************************************)
EXTENDS Integers, Sequences, FiniteSets, TLC

VARIABLES
    pc,          \* where the operation under way stands
    lines,       \* the lines of the transcript
    tokenStats,  \* what calculateTotalTokens returned
    theme,       \* the theme handed to the renderer
    variables,   \* the variable map handed to the renderer
    scripts,     \* what is found at each script path
    styleName,   \* the style rendered
    parts,       \* the renderer's array of fragments
    output,      \* the rendered string
    input,       \* the session input of parseStatusLineData
    environ,     \* process.env
    userConfig,  \* the file at CONFIG_FILE
    projectConfig, \* the file at <cwd>/.claude-code-router/config.json
    git,         \* what `git branch --show-current` does in the work dir
    transcript,  \* the file at input.transcript_path
    found,       \* gitBranch, model, inputTokens, outputTokens so far
    result       \* how the call of parseStatusLineData ended

tokVars == <<lines, tokenStats>>
renderVars == <<theme, variables, scripts, styleName, parts, output>>
pipeVars ==
    <<input, environ, userConfig, projectConfig, git, transcript, found,
      result>>
vars == <<pc, tokVars, renderVars, pipeVars>>

---------------------------------------------------------------------------
(* Strings *)

Txt(s) == <<[k |-> "txt", s |-> s, c |-> << >>]>>

\* `${n}` of an integer n
Num(n) == <<[k |-> "num", s |-> "", c |-> <<n>>]>>

\* `${n}k` of an integer n
NumK(n) == <<[k |-> "num", s |-> "k", c |-> <<n>>]>>

\* Math.round of n / d for naturals n, d
Round(n, d) == (2 * n + d) \div (2 * d)

---------------------------------------------------------------------------
(* Colour tokens.  A token is the string pre \o name \o hex: pre is "",     *)
(* "#" or "bg_#", name is a colour name (or any other word), hex is a      *)
(* sequence of characters, each a hex digit 0..15 or NotHex for a          *)
(* character that is no hex digit.  The empty token is an absent or empty  *)
(* colour (falsy).                                                         *)

NotHex == 16

Named(n) == [pre |-> "", name |-> n, hex |-> << >>]
Hex(pre, digits) == [pre |-> pre, name |-> "", hex |-> digits]
NoColor == Named("")

IsTruthy(t) == t # NoColor

\* colorName.startsWith('#') || /^[0-9a-fA-F]{6}$/ || /^[0-9a-fA-F]{3}$/
LooksHex(t) ==
    \/ t.pre = "#"
    \/ /\ t.pre = "" /\ t.name = ""
       /\ Len(t.hex) \in {3, 6}
       /\ \A i \in 1..Len(t.hex) : t.hex[i] # NotHex

NullRgb == << >>
NaN == -1

\* parseInt(two characters, 16): the longest prefix of hex digits
ParseInt16(a, b) ==
    IF a = NotHex THEN NaN ELSE IF b = NotHex THEN a ELSE 16 * a + b

\* hexToRgb on the characters that follow the leading '#', if any
hexToRgb(digits) ==
    LET h == IF Len(digits) = 3
             THEN <<digits[1], digits[1], digits[2], digits[2],
                    digits[3], digits[3]>>
             ELSE digits
    IN  IF Len(h) # 6 THEN NullRgb
        ELSE LET r == ParseInt16(h[1], h[2])
                 g == ParseInt16(h[3], h[4])
                 b == ParseInt16(h[5], h[6])
             IN  IF r = NaN \/ g = NaN \/ b = NaN THEN NullRgb
                 ELSE <<r, g, b>>

\* One escape sequence: \x1b[38;2;r;g;bm, \x1b[48;2;r;g;bm, \x1b[<n>m
TRUE_COLOR_PREFIX == "38;2"
TRUE_COLOR_BG_PREFIX == "48;2"
Esc(prefix, c) == <<[k |-> prefix, s |-> "", c |-> c]>>
Sgr(n) == Esc("sgr", <<n>>)

COLORS ==
    [reset |-> 0, bold |-> 1, dim |-> 2,
     black |-> 30, red |-> 31, green |-> 32, yellow |-> 33,
     blue |-> 34, magenta |-> 35, cyan |-> 36, white |-> 37,
     bright_black |-> 90, bright_red |-> 91, bright_green |-> 92,
     bright_yellow |-> 93, bright_blue |-> 94, bright_magenta |-> 95,
     bright_cyan |-> 96, bright_white |-> 97,
     bg_black |-> 40, bg_red |-> 41, bg_green |-> 42, bg_yellow |-> 43,
     bg_blue |-> 44, bg_magenta |-> 45, bg_cyan |-> 46, bg_white |-> 47,
     bg_bright_black |-> 100, bg_bright_red |-> 101,
     bg_bright_green |-> 102, bg_bright_yellow |-> 103,
     bg_bright_blue |-> 104, bg_bright_magenta |-> 105,
     bg_bright_cyan |-> 106, bg_bright_white |-> 107]

IsName(t, table) == t.pre = "" /\ t.hex = << >> /\ t.name \in DOMAIN table

getColorCode(t) ==
    LET rgb == IF LooksHex(t) THEN hexToRgb(t.hex) ELSE NullRgb
    IN  IF rgb # NullRgb THEN Esc(TRUE_COLOR_PREFIX, rgb)
        ELSE IF IsName(t, COLORS) THEN Sgr(COLORS[t.name])
        ELSE << >>

COLOR_MAP ==
    [black |-> 0, red |-> 1, green |-> 2, yellow |-> 3,
     blue |-> 4, magenta |-> 5, cyan |-> 6, white |-> 7,
     bright_black |-> 8, bright_red |-> 9, bright_green |-> 10,
     bright_yellow |-> 11, bright_blue |-> 12, bright_magenta |-> 13,
     bright_cyan |-> 14, bright_white |-> 15,
     bg_black |-> 0, bg_red |-> 1, bg_green |-> 2, bg_yellow |-> 3,
     bg_blue |-> 4, bg_magenta |-> 5, bg_cyan |-> 6, bg_white |-> 7,
     bg_bright_black |-> 8, bg_bright_red |-> 9, bg_bright_green |-> 10,
     bg_bright_yellow |-> 11, bg_bright_blue |-> 12,
     bg_bright_magenta |-> 13, bg_bright_cyan |-> 14,
     bg_bright_white |-> 15,
     bg_bright_orange |-> 202, bg_bright_purple |-> 129]

basicColors ==
    << <<0, 0, 0>>, <<128, 0, 0>>, <<0, 128, 0>>, <<128, 128, 0>>,
       <<0, 0, 128>>, <<128, 0, 128>>, <<0, 128, 128>>, <<192, 192, 192>>,
       <<128, 128, 128>>, <<255, 0, 0>>, <<0, 255, 0>>, <<255, 255, 0>>,
       <<0, 0, 255>>, <<255, 0, 255>>, <<0, 255, 255>>, <<255, 255, 255>> >>

cubeLevels == <<0, 95, 135, 175, 215, 255>>

color256ToRgb(index) ==
    IF index < 0 \/ index > 255 THEN NullRgb
    ELSE IF index < 16 THEN basicColors[index + 1]
    ELSE IF index < 232
         THEN LET i == index - 16
              IN  <<cubeLevels[(i \div 36) + 1],
                    cubeLevels[((i % 36) \div 6) + 1],
                    cubeLevels[(i % 6) + 1]>>
    ELSE LET gray == 8 + (index - 232) * 10
         IN  <<gray, gray, gray>>

getTrueColorRgb(t) ==
    IF IsName(t, COLOR_MAP) THEN color256ToRgb(COLOR_MAP[t.name])
    ELSE IF LooksHex(t) THEN hexToRgb(t.hex)
    ELSE IF t.pre = "bg_#" THEN hexToRgb(t.hex)
    ELSE NullRgb

---------------------------------------------------------------------------
(* Modules, templates and script modules *)

\* A template is a sequence of parts: literal text, or {{name}}.
Lit(s) == [isVar |-> FALSE, v |-> s]
Var(n) == [isVar |-> TRUE, v |-> n]

Module(type, icon, text, color, background, scriptPath) ==
    [type |-> type, icon |-> icon, text |-> text, color |-> color,
     background |-> background, scriptPath |-> scriptPath]

\* th.modules: an array, or absent, or a value that is no array
\* (a number has no length, the characters of a string are no modules).
Theme(modules) == [mk |-> "array", modules |-> modules]
ThemeWithout(mk) == [mk |-> mk, modules |-> << >>]

RECURSIVE replaceVariables(_, _)
replaceVariables(text, vmap) ==
    IF text = << >> THEN << >>
    ELSE LET part == Head(text)
             value == IF ~part.isVar THEN Txt(part.v)
                      ELSE IF part.v \in DOMAIN vmap
                           THEN vmap[part.v]          \* || ""
                           ELSE << >>
         IN  value \o replaceVariables(Tail(text), vmap)

\* What is found at a script path: nothing ("missing": fs.access rejects),
\* a module that throws when loaded or called ("throws"), a function whose
\* promise rejects ("rejects"), a function or default function returning
\* text or a promise of it, a string or default string, or any other
\* export ("object").
Script(kind, text) == [kind |-> kind, text |-> text]

\* executeScript that hands the error text back instead of the empty text.
executeScriptShowsError(scriptPath, vmap, files) ==
    IF scriptPath \notin DOMAIN files THEN Txt("Error")
    ELSE LET m == files[scriptPath]
         IN  IF m.kind \in {"missing", "throws", "rejects"}
             THEN Txt("Error")
             ELSE IF m.kind \in {"function", "async", "default_function",
                                 "string", "default_string"}
             THEN m.text
             ELSE << >>

executeScript(scriptPath, vmap, files) ==
    IF scriptPath \notin DOMAIN files THEN << >>         \* catch
    ELSE LET m == files[scriptPath]
         IN  IF m.kind \in {"missing", "throws", "rejects"}
             THEN << >>                                     \* catch
             ELSE IF m.kind \in {"function", "async", "default_function",
                                 "string", "default_string"}
             THEN m.text
             ELSE << >>

DEFAULT_THEME ==
    Theme(<<
        Module("workDir", Txt("nf-md-folder_outline"),
               <<Var("workDirName")>>, Named("bright_blue"), NoColor, ""),
        Module("gitBranch", Txt("nf-dev-git_branch"),
               <<Var("gitBranch")>>, Named("bright_magenta"), NoColor, ""),
        Module("model", Txt("nf-md-robot_outline"),
               <<Var("model")>>, Named("bright_cyan"), NoColor, ""),
        Module("usage", Txt("up"),
               <<Var("inputTokens")>>, Named("bright_green"), NoColor, ""),
        Module("usage", Txt("down"),
               <<Var("outputTokens")>>, Named("bright_yellow"), NoColor, "")
    >>)

POWERLINE_THEME ==
    Theme(<<
        Module("workDir", Txt("nf-md-folder_outline"),
               <<Var("workDirName")>>, Named("white"),
               Named("bg_bright_blue"), ""),
        Module("gitBranch", Txt("nf-dev-git_branch"),
               <<Var("gitBranch")>>, Named("white"),
               Named("bg_bright_magenta"), ""),
        Module("model", Txt("nf-md-robot_outline"),
               <<Var("model")>>, Named("white"),
               Named("bg_bright_cyan"), ""),
        Module("usage", Txt("up"),
               <<Var("inputTokens")>>, Named("white"),
               Named("bg_bright_green"), ""),
        Module("usage", Txt("down"),
               <<Var("outputTokens")>>, Named("white"),
               Named("bg_bright_yellow"), "")
    >>)

SIMPLE_THEME ==
    Theme(<<
        Module("model", << >>,
               <<Var("model")>>, Named("bright_cyan"), NoColor, ""),
        Module("workDir", << >>,
               <<Var("workDirName")>>, Named("bright_blue"), NoColor, ""),
        Module("totalTokens", Txt("Tokens:"),
               <<Var("totalTokens")>>, Named("bright_white"), NoColor, ""),
        Module("usage", Txt("up"),
               <<Var("inputTokens")>>, Named("bright_green"), NoColor, ""),
        Module("usage", Txt("right"),
               <<Var("outputTokens")>>, Named("bright_yellow"), NoColor, "")
    >>)

---------------------------------------------------------------------------
(* The two renderers.  Each returns [threw, parts]: whether it raised, and *)
(* the array of fragments it joins.                                        *)

RECURSIVE Join(_, _)
Join(frags, sep) ==
    IF frags = << >> THEN << >>
    ELSE IF Len(frags) = 1 THEN frags[1]
    ELSE frags[1] \o sep \o Join(Tail(frags), sep)

\* The number of modules the loops visit: Math.min(modules.length, 5)
maxModules == 5
LoopCount(modules) ==
    IF Len(modules) < maxModules THEN Len(modules) ELSE maxModules

\* "If script type, execute script to get text"
ModuleText(module, vmap, files) ==
    IF module.type = "script" /\ module.scriptPath # ""
    THEN executeScript(module.scriptPath, vmap, files)
    ELSE replaceVariables(module.text, vmap)

\* "Build display text"
DisplayText(icon, text) ==
    (IF icon # << >> THEN icon \o Txt(" ") ELSE << >>) \o text

\* Skipped only when there is nothing at all to display.
SkipsOnlyEmptyDisplay(displayText, text) == displayText = << >>

\* if (!displayText || !text) continue
Skips(displayText, text) == displayText = << >> \/ text = << >>

DefaultPart(module, vmap, files) ==
    LET color == IF IsTruthy(module.color)
                 THEN getColorCode(module.color) ELSE << >>
        background == IF IsTruthy(module.background)
                      THEN getColorCode(module.background) ELSE << >>
        text == ModuleText(module, vmap, files)
        displayText == DisplayText(module.icon, text)
    IN  IF Skips(displayText, text) THEN << >>
        ELSE << background \o color \o displayText \o Sgr(COLORS.reset) >>

RECURSIVE DefaultParts(_, _, _, _, _)
DefaultParts(modules, i, n, vmap, files) ==
    IF i > n THEN << >>
    ELSE DefaultPart(modules[i], vmap, files)
            \o DefaultParts(modules, i + 1, n, vmap, files)

renderDefaultStyle(th, vmap, files) ==
    IF th.mk = "string" THEN [threw |-> TRUE, parts |-> << >>]
    ELSE IF th.mk = "number" THEN [threw |-> FALSE, parts |-> << >>]
    ELSE LET modules == IF th.mk = "missing"
                        THEN DEFAULT_THEME.modules ELSE th.modules
         IN  [threw |-> FALSE,
              parts |-> DefaultParts(modules, 1, LoopCount(modules),
                                     vmap, files)]

SEP_RIGHT == Txt("E0B0")
defaultBlueRgb == <<33, 150, 243>>

segment(text, textFg, bgColor, nextBgColor) ==
    LET bgRgb == getTrueColorRgb(bgColor)
    IN  IF bgRgb = NullRgb
        THEN Esc(TRUE_COLOR_BG_PREFIX, defaultBlueRgb)
                \o Esc(TRUE_COLOR_PREFIX, <<255, 255, 255>>)
                \o Txt(" ") \o text \o Txt(" ") \o Sgr(0)
        ELSE LET curBg == Esc(TRUE_COLOR_BG_PREFIX, bgRgb)
                 textFgRgb == getTrueColorRgb(textFg)
                 fgRgb == IF textFgRgb # NullRgb THEN textFgRgb
                          ELSE <<255, 255, 255>>
                 body == curBg \o Esc(TRUE_COLOR_PREFIX, fgRgb)
                            \o Txt(" ") \o text \o Txt(" ") \o Sgr(0)
             IN  IF nextBgColor # NoColor                  \* != null
                 THEN LET nextBgRgb == getTrueColorRgb(nextBgColor)
                          sepNextBg == IF nextBgRgb # NullRgb THEN nextBgRgb
                                       ELSE <<0, 0, 0>>
                      IN  body \o Esc(TRUE_COLOR_PREFIX, bgRgb)
                               \o Esc(TRUE_COLOR_BG_PREFIX, sepNextBg)
                               \o SEP_RIGHT \o Sgr(0)
                 ELSE body

\* "Get next module's background color (for separator)"; NoColor is null.
NextBackground(modules, i) ==
    IF i < Len(modules) THEN modules[i + 1].background ELSE NoColor

\* PowerlinePart that leaves out a module whose background does not
\* resolve to RGB.
PowerlinePartSkipsUnresolved(modules, i, vmap, files) ==
    LET module == modules[i]
        color == IF IsTruthy(module.color) THEN module.color
                 ELSE Named("white")
        text == ModuleText(module, vmap, files)
        displayText == DisplayText(module.icon, text)
        actualBackground == IF IsTruthy(module.background)
                            THEN module.background
                            ELSE Named("bg_bright_blue")
    IN  IF Skips(displayText, text)
           \/ getTrueColorRgb(actualBackground) = NullRgb
        THEN << >>
        ELSE << segment(displayText, color, actualBackground,
                        NextBackground(modules, i)) >>

PowerlinePart(modules, i, vmap, files) ==
    LET module == modules[i]
        color == IF IsTruthy(module.color) THEN module.color
                 ELSE Named("white")
        text == ModuleText(module, vmap, files)
        displayText == DisplayText(module.icon, text)
        actualBackground == IF IsTruthy(module.background)
                            THEN module.background
                            ELSE Named("bg_bright_blue")
    IN  IF Skips(displayText, text) THEN << >>
        ELSE << segment(displayText, color, actualBackground,
                        NextBackground(modules, i)) >>

RECURSIVE PowerlineParts(_, _, _, _, _)
PowerlineParts(modules, i, n, vmap, files) ==
    IF i > n THEN << >>
    ELSE PowerlinePart(modules, i, vmap, files)
            \o PowerlineParts(modules, i + 1, n, vmap, files)

renderPowerlineStyle(th, vmap, files) ==
    IF th.mk = "string" THEN [threw |-> TRUE, parts |-> << >>]
    ELSE IF th.mk = "number" THEN [threw |-> FALSE, parts |-> << >>]
    ELSE LET modules == IF th.mk = "missing"
                        THEN POWERLINE_THEME.modules ELSE th.modules
         IN  [threw |-> FALSE,
              parts |-> PowerlineParts(modules, 1, LoopCount(modules),
                                       vmap, files)]

---------------------------------------------------------------------------
(* Transcript lines.  kind is what JSON.parse makes of the line:           *)
(*   "blank": only white space (line.trim() is falsy, JSON.parse throws)   *)
(*   "bad"  : JSON.parse throws                                            *)
(*   "null" : parses to null, so reading .message or .type throws          *)
(*   "json" : parses to an object; type, model and usage are its fields    *)
(* A usage field that is absent reads as 0 through `|| 0`.                 *)

NoUsage == [has |-> FALSE, inp |-> 0, out |-> 0, cc |-> 0, cr |-> 0]

Usage(i, o, c, r) == [has |-> TRUE, inp |-> i, out |-> o, cc |-> c, cr |-> r]

Line(kind, type, mdl, usage) ==
    [kind |-> kind, type |-> type, model |-> mdl, usage |-> usage]

BlankLine == Line("blank", "", "", NoUsage)
BadLine == Line("bad", "", "", NoUsage)
NullLine == Line("null", "", "", NoUsage)

---------------------------------------------------------------------------
(* calculateTotalTokens *)

maxTokens == 200000
defaultUsed == 138000

ZeroTotals == [inp |-> 0, out |-> 0, cc |-> 0, cr |-> 0, raised |-> FALSE]

\* AccumulateLine without its try/catch: a line that does not parse raises.
AccumulateLineNoCatch(acc, line) ==
    IF acc.raised THEN acc
    ELSE IF line.kind = "blank" THEN acc
    ELSE IF line.kind # "json" THEN [acc EXCEPT !.raised = TRUE]
    ELSE IF line.usage.has
         THEN [acc EXCEPT !.inp = @ + line.usage.inp,
                          !.out = @ + line.usage.out,
                          !.cc = @ + line.usage.cc,
                          !.cr = @ + line.usage.cr]
         ELSE acc

\* The body of the loop over the lines, for one line.
AccumulateLine(acc, line) ==
    IF line.kind = "blank" THEN acc                  \* if (line.trim())
    ELSE IF line.kind # "json" THEN acc              \* catch: continue
    ELSE IF line.usage.has
         THEN [acc EXCEPT !.inp = @ + line.usage.inp,
                          !.out = @ + line.usage.out,
                          !.cc = @ + line.usage.cc,
                          !.cr = @ + line.usage.cr]
         ELSE acc

RECURSIVE SumLines(_, _)
SumLines(ls, acc) ==
    IF ls = << >> THEN acc
    ELSE SumLines(Tail(ls), AccumulateLine(acc, Head(ls)))

\* "Get token information from the last message": only lines[length - 1].
LastUsage(ls) ==
    IF Len(ls) > 0
    THEN LET last == ls[Len(ls)]
         IN  IF last.kind = "json" /\ last.usage.has
             THEN last.usage
             ELSE NoUsage                            \* catch, or no usage
    ELSE NoUsage

\* TotalUsed without the limit of the cache-read branch.
TotalUsedUnclamped(tot, last) ==
    IF last.cr > 0
    THEN last.cr + (last.inp + last.out + last.cc)
    ELSE IF tot.inp + tot.out = 0 THEN defaultUsed ELSE tot.inp + tot.out

\* "Calculate total usage": the two branches.
TotalUsed(tot, last) ==
    IF last.cr > 0
    THEN LET used == last.cr + (last.inp + last.out + last.cc)
         IN  IF used > 200000 THEN 200000 ELSE used
    ELSE IF tot.inp + tot.out = 0 THEN defaultUsed ELSE tot.inp + tot.out

calculateTotalTokens(ls) ==
    LET tot == SumLines(ls, ZeroTotals)
        totalUsed == TotalUsed(tot, LastUsage(ls))
        remaining == maxTokens - totalUsed
    IN  [raised |-> tot.raised,
         totalUsed |-> totalUsed,
         totalRemaining |-> IF remaining > 0 THEN remaining ELSE 0,
         maxTokensFormatted |-> NumK(Round(maxTokens, 1000))]

NoStats ==
    [raised |-> FALSE, totalUsed |-> -1, totalRemaining |-> -1,
     maxTokensFormatted |-> << >>]

---------------------------------------------------------------------------
(* Configuration files.  state is "absent" (fs.access rejects), "malformed" *)
(* (readFile or JSON5.parse throws, or the document is no object) or       *)
(* "parsed".  StatusLine.sections maps a style name to its sub-section, a  *)
(* theme; Router.default is absent, a string given by its comma-separated  *)
(* components, or a value that is no string.                               *)

NoStatusLine == [has |-> FALSE, currentStyle |-> "", sections |-> << >>]
StatusLine(currentStyle, sections) ==
    [has |-> TRUE, currentStyle |-> currentStyle, sections |-> sections]

NoRouter == [kind |-> "absent", components |-> << >>]
RouterDefault(components) == [kind |-> "string", components |-> components]
RouterOther == [kind |-> "other", components |-> << >>]

Config(state, statusLine, router) ==
    [state |-> state, StatusLine |-> statusLine, Router |-> router]
AbsentConfig == Config("absent", NoStatusLine, NoRouter)
MalformedConfig == Config("malformed", NoStatusLine, NoRouter)

\* getProjectThemeConfig which names the current style even when it found
\* no theme for it.
getProjectThemeConfigKeepsStyle(cfg) ==
    LET currentStyle == IF cfg.state = "parsed" /\ cfg.StatusLine.has
                           /\ cfg.StatusLine.currentStyle # ""
                        THEN cfg.StatusLine.currentStyle ELSE "default"
    IN  IF /\ cfg.state = "parsed" /\ cfg.StatusLine.has
           /\ currentStyle \in DOMAIN cfg.StatusLine.sections
           /\ cfg.StatusLine.sections[currentStyle].mk # "missing"
        THEN [found |-> TRUE, theme |-> cfg.StatusLine.sections[currentStyle],
              style |-> currentStyle]
        ELSE [found |-> FALSE, theme |-> Theme(<< >>), style |-> currentStyle]

\* found is FALSE for { theme: null, style: 'default' }.
getProjectThemeConfig(cfg) ==
    IF cfg.state # "parsed"                       \* access fails, or catch
    THEN [found |-> FALSE, theme |-> Theme(<< >>), style |-> "default"]
    ELSE IF cfg.StatusLine.has
    THEN LET currentStyle == IF cfg.StatusLine.currentStyle # ""
                             THEN cfg.StatusLine.currentStyle ELSE "default"
         IN  IF /\ currentStyle \in DOMAIN cfg.StatusLine.sections
                /\ cfg.StatusLine.sections[currentStyle].mk # "missing"
             THEN [found |-> TRUE,
                   theme |-> cfg.StatusLine.sections[currentStyle],
                   style |-> currentStyle]
             ELSE [found |-> FALSE, theme |-> Theme(<< >>),
                   style |-> "default"]
    ELSE [found |-> FALSE, theme |-> Theme(<< >>), style |-> "default"]

\* process.env: the variables the two probes read.  nerdFont says whether
\* NERD_FONT, NERDFONT or FONT mentions "Nerd" or "nerd".
Env(useSimpleIcons, term, nerdFont, termProgram, colorTerm) ==
    [USE_SIMPLE_ICONS |-> useSimpleIcons, TERM |-> term,
     nerdFont |-> nerdFont, TERM_PROGRAM |-> termProgram,
     COLORTERM |-> colorTerm]

shouldUseSimpleTheme(env) ==
    IF env.USE_SIMPLE_ICONS = "true" THEN TRUE
    ELSE IF env.TERM \in {"dumb", "unknown"} THEN TRUE
    ELSE FALSE

canDisplayNerdFonts(env) ==
    IF env.USE_SIMPLE_ICONS = "true" THEN FALSE
    ELSE IF env.nerdFont THEN TRUE
    ELSE IF env.TERM_PROGRAM
              \in {"iTerm.app", "vscode", "Hyper", "kitty", "alacritty"}
    THEN TRUE
    ELSE IF env.COLORTERM \in {"truecolor", "24bit"} THEN TRUE
    ELSE env.USE_SIMPLE_ICONS # "true"

effectiveTheme(env) ==
    IF shouldUseSimpleTheme(env) \/ ~canDisplayNerdFonts(env)
    THEN SIMPLE_THEME ELSE DEFAULT_THEME

---------------------------------------------------------------------------
(* The model name and the usage of the last assistant message *)

IsSpace(a) == a.k = "txt" /\ a.s = " "

RECURSIVE TrimStart(_)
TrimStart(str) ==
    IF str # << >> /\ IsSpace(Head(str)) THEN TrimStart(Tail(str)) ELSE str

RECURSIVE TrimEnd(_)
TrimEnd(str) ==
    IF str # << >> /\ IsSpace(str[Len(str)])
    THEN TrimEnd(SubSeq(str, 1, Len(str) - 1)) ELSE str

Trim(str) == TrimEnd(TrimStart(str))

NothingFound == [model |-> << >>, inputTokens |-> 0, outputTokens |-> 0]

\* "Traverse backwards to find the last assistant message", from line i
RECURSIVE LastAssistant(_, _)
LastAssistant(ls, i) ==
    IF i < 1 THEN NothingFound
    ELSE LET l == ls[i]
         IN  IF l.kind = "json" /\ l.type = "assistant" /\ l.model # ""
             THEN [model |-> Txt(l.model),
                   inputTokens |-> l.usage.inp,
                   outputTokens |-> l.usage.out]
             ELSE LastAssistant(ls, i - 1)           \* catch: continue

\* The model name config.Router.default gives: its second component,
\* trimmed; nothing when reading or parsing throws.
RouterModel(cfg) ==
    IF cfg.state # "parsed" THEN << >>               \* catch
    ELSE IF cfg.Router.kind = "string"
    THEN IF Len(cfg.Router.components) >= 2
            /\ cfg.Router.components[2] # << >>
         THEN Trim(cfg.Router.components[2])
         ELSE << >>
    ELSE << >>                                       \* absent, or catch

\* The configuration read when the project file yields no model name.
ConfigModelFallsThrough(project, user) ==
    IF project.state # "absent" /\ RouterModel(project) # << >>
    THEN RouterModel(project)
    ELSE RouterModel(user)

\* "Check if project configuration file exists, if not use user home
\* directory configuration file"
ConfigModel(project, user) ==
    IF project.state # "absent" THEN RouterModel(project)
    ELSE RouterModel(user)

\* `${(n / 1000).toFixed(1)}k`: tenths, rounded
Num1K(n) ==
    LET t == Round(n, 100)
    IN  <<[k |-> "num.1", s |-> "k", c |-> <<t \div 10, t % 10>>]>>

formatUsage(input_tokens, output_tokens) ==
    IF input_tokens > 1000 \/ output_tokens > 1000
    THEN (IF input_tokens > 1000 THEN Num1K(input_tokens)
          ELSE Num(input_tokens))
         \o Txt(" ")
         \o (IF output_tokens > 1000 THEN Num1K(output_tokens)
             ELSE Num(output_tokens))
    ELSE Num(input_tokens) \o Txt(" ") \o Num(output_tokens)

formatTokensWithK(tokens) ==
    IF tokens > 1000 THEN NumK(Round(tokens, 1000)) ELSE Num(tokens)

\* usage.split(" "): the pieces between the spaces
RECURSIVE SplitOnSpace(_, _)
SplitOnSpace(str, piece) ==
    IF str = << >> THEN <<piece>>
    ELSE IF IsSpace(Head(str))
         THEN <<piece>> \o SplitOnSpace(Tail(str), << >>)
         ELSE SplitOnSpace(Tail(str), piece \o <<Head(str)>>)

\* workDir.split("/").pop() || ""
LastSegment(path) == IF path = << >> THEN << >> ELSE path[Len(path)]

\* "Define variable replacement mapping"
BindVariables(workDir, gitBranch, mdl, inputTokens, outputTokens, stats) ==
    LET usage == SplitOnSpace(formatUsage(inputTokens, outputTokens), << >>)
        totalUsedFormatted == formatTokensWithK(stats.totalUsed)
        totalRemainingFormatted == formatTokensWithK(stats.totalRemaining)
    IN  [workDirName |-> LastSegment(workDir),
         gitBranch |-> gitBranch,
         model |-> mdl,
         inputTokens |-> usage[1],
         outputTokens |-> usage[2],
         totalTokens |-> totalUsedFormatted \o Txt("/")
                            \o stats.maxTokensFormatted \o Txt(" used | ")
                            \o totalRemainingFormatted
                            \o Txt(" remaining"),
         totalUsed |-> totalUsedFormatted,
         totalRemaining |-> totalRemainingFormatted,
         maxTokens |-> stats.maxTokensFormatted]

---------------------------------------------------------------------------
(* Token accounting on its own: calculateTotalTokens is applied to every    *)
(* transcript of at most MaxLines lines that content.trim().split("\n")    *)
(* produces (a blank first or last line only when it is the only line),    *)
(* and to the empty sequence.                                              *)

MaxLines == 3

InputTokenValues == {0, 9000, 150000}
OutputTokenValues == {0, 60000}
CacheCreationValues == {0, 1000}
CacheReadValues == {0, 190000}

UsageLines ==
    {Line("json", "assistant", "m1", Usage(i, o, c, r)) :
        i \in InputTokenValues, o \in OutputTokenValues,
        c \in CacheCreationValues, r \in CacheReadValues}

MalformedLines == {BadLine, NullLine}

TokenLines ==
    UsageLines \cup MalformedLines
        \cup {BlankLine, Line("json", "user", "", NoUsage)}

Transcripts(S) == UNION {[1..n -> S] : n \in 0..MaxLines}

\* What transcriptContent.trim().split("\n") can be.
IsSplitOfTrimmed(ls) ==
    Len(ls) > 1 => ls[1].kind # "blank" /\ ls[Len(ls)].kind # "blank"

NoVariables == [v \in {} |-> << >>]
NoScripts == [p \in {} |-> Script("missing", << >>)]

Pending == [state |-> "pending", value |-> << >>]
Returned(value) == [state |-> "returned", value |-> value]

\* The catch of parseStatusLineData that lets the error through.
OnErrorRethrow == [state |-> "threw", value |-> << >>]

\* catch (error) { return ""; }
OnError == Returned(<< >>)

Input(kind, current_dir, display_name) ==
    [kind |-> kind, current_dir |-> current_dir,
     display_name |-> display_name]

NoEnv == Env("", "", FALSE, "", "")
NoGit == [ok |-> FALSE, branch |-> << >>]
NoTranscript == [readable |-> FALSE, lines |-> << >>]
NoneFound ==
    [gitBranch |-> << >>, model |-> << >>, inputTokens |-> 0,
     outputTokens |-> 0]

PipeIdle ==
    /\ input = Input("ok", << >>, << >>)
    /\ environ = NoEnv
    /\ userConfig = AbsentConfig
    /\ projectConfig = AbsentConfig
    /\ git = NoGit
    /\ transcript = NoTranscript
    /\ found = NoneFound
    /\ result = Pending

RenderIdle ==
    /\ theme = Theme(<< >>)
    /\ variables = NoVariables
    /\ scripts = NoScripts
    /\ styleName = ""
    /\ parts = << >>
    /\ output = << >>

TokInit ==
    /\ pc = "tok_start"
    /\ lines \in {ls \in Transcripts(TokenLines) : IsSplitOfTrimmed(ls)}
    /\ tokenStats = NoStats
    /\ RenderIdle
    /\ PipeIdle

TokCompute ==
    /\ pc = "tok_start"
    /\ tokenStats' = calculateTotalTokens(lines)
    /\ pc' = "tok_done"
    /\ UNCHANGED <<lines, renderVars, pipeVars>>

TokNext == TokCompute

SpecTokens == TokInit /\ [][TokNext]_vars

---------------------------------------------------------------------------
(* The renderers on their own: each is applied to every theme of at most   *)
(* MaxThemeLen modules, the first maxModules of them drawn from            *)
(* ThemeModules and the ones the loops never visit from TailModules (one   *)
(* with a background, one without), with the git branch empty or not and   *)
(* the script module behaving in each of the ways executeScript tells      *)
(* apart.                                                                  *)

MaxThemeLen == 6

WorkDirModule ==
    Module("workDir", Txt("dir"), <<Var("workDirName")>>,
           Named("white"), Named("bg_red"), "")

GitModule ==
    Module("gitBranch", Txt("git"), <<Var("gitBranch")>>,
           Hex("", <<15, 15, 15>>), Hex("#", <<0, 0, 0, 0, 15, 15>>), "")

ModelModule ==
    Module("model", << >>, <<Var("model")>>, NoColor, NoColor, "")

ScriptModule ==
    Module("script", Txt("js"), << >>,
           Named("bogus"), Named("bg_nope"), "/s.js")

ThemeModules == {WorkDirModule, GitModule, ModelModule, ScriptModule}

TailModules == {WorkDirModule, ModelModule}

ModuleLists ==
    UNION {{ms \in [1..n -> ThemeModules] :
                \A i \in 1..n : i > maxModules => ms[i] \in TailModules} :
           n \in 0..MaxThemeLen}

RenderThemes == {Theme(ms) : ms \in ModuleLists} \cup {ThemeWithout("missing")}

ScriptBehaviours ==
    {Script("function", Txt("out")), Script("async", << >>),
     Script("missing", << >>), Script("throws", << >>),
     Script("rejects", << >>), Script("object", << >>)}

\* The variable map parseStatusLineData binds in directory "proj" for model
\* "m1" with an empty transcript.
RenderVariables(gitBranch) ==
    BindVariables(<<Txt("proj")>>, gitBranch, Txt("m1"), 0, 0,
                  calculateTotalTokens(<< >>))

RenderInit ==
    /\ pc = "render_start"
    /\ lines = << >>
    /\ tokenStats = NoStats
    /\ theme \in RenderThemes
    /\ variables \in {RenderVariables(b) : b \in {<< >>, Txt("main")}}
    /\ scripts \in [{"/s.js"} -> ScriptBehaviours]
    /\ styleName = ""
    /\ parts = << >>
    /\ output = << >>
    /\ PipeIdle

RenderDefault ==
    /\ pc = "render_start"
    /\ LET r == renderDefaultStyle(theme, variables, scripts)
       IN  /\ ~r.threw
           /\ parts' = r.parts
           /\ output' = Join(r.parts, Txt(" "))
    /\ styleName' = "default"
    /\ pc' = "render_done"
    /\ UNCHANGED <<tokVars, theme, variables, scripts, pipeVars>>

RenderPowerline ==
    /\ pc = "render_start"
    /\ LET r == renderPowerlineStyle(theme, variables, scripts)
       IN  /\ ~r.threw
           /\ parts' = r.parts
           /\ output' = Join(r.parts, << >>)
    /\ styleName' = "powerline"
    /\ pc' = "render_done"
    /\ UNCHANGED <<tokVars, theme, variables, scripts, pipeVars>>

RenderNext == RenderDefault \/ RenderPowerline

SpecRender == RenderInit /\ [][RenderNext]_vars

---------------------------------------------------------------------------
(* parseStatusLineData, one action per stretch between its awaits that     *)
(* reads something new.  What it reads (the environment, the git query,    *)
(* the transcript, the project configuration, the script) is drawn when    *)
(* it is read.                                                             *)

MaxTranscriptLines == 2

UserModules == <<WorkDirModule, GitModule, ModelModule, ScriptModule>>

Inputs ==
    {Input(kind, << << >>, Txt("home"), Txt("proj") >>, Txt("Opus")) :
        kind \in {"ok", "no_workspace", "no_model"}}

Environs ==
    {Env("", "xterm", FALSE, "", ""), Env("true", "xterm", TRUE, "", ""),
     Env("", "dumb", FALSE, "vscode", "truecolor")}

UserSections ==
    {ThemeWithout("missing"), Theme(<< >>), Theme(UserModules),
     ThemeWithout("string"), ThemeWithout("number")}

SectionName(currentStyle) ==
    IF currentStyle = "" THEN "default" ELSE currentStyle

OtherStyle(currentStyle) ==
    IF currentStyle = "powerline" THEN "default" ELSE "powerline"

StatusLines ==
    {NoStatusLine}
        \cup {StatusLine(cs, SectionName(cs) :> th) :
                 cs \in {"", "powerline"}, th \in UserSections}
        \cup {StatusLine(cs, OtherStyle(cs) :> Theme(UserModules)) :
                 cs \in {"", "powerline"}}

UserRouters ==
    {NoRouter,
     RouterDefault(<<Txt("openrouter"), Txt(" ") \o Txt("modelU")>>),
     RouterDefault(<<Txt("openrouter"), Txt(" ")>>)}

\* Every StatusLine section and every Router section; the two are read by
\* different steps, so they are combined only once.
UserConfigs ==
    {AbsentConfig, MalformedConfig}
        \cup {Config("parsed", sl, NoRouter) : sl \in StatusLines}
        \cup {Config("parsed", NoStatusLine, r) : r \in UserRouters}
        \cup {Config("parsed",
                     StatusLine("powerline",
                                "powerline" :> Theme(UserModules)),
                     r) : r \in UserRouters}

ProjectConfigs ==
    {AbsentConfig, MalformedConfig}
        \cup {Config("parsed", NoStatusLine, r) :
                 r \in {NoRouter, RouterOther,
                        RouterDefault(<<Txt("openrouter"), Txt("modelP")>>),
                        RouterDefault(<<Txt("openrouter")>>)}}

GitResults == {NoGit, [ok |-> TRUE, branch |-> Txt("main")]}

TranscriptLines ==
    {Line("json", "assistant", "m1", Usage(1200, 300, 0, 0)),
     Line("json", "assistant", "m2", NoUsage),
     Line("json", "assistant", "", NoUsage),
     Line("json", "user", "m3", Usage(5000, 100, 0, 20000)),
     BadLine}

TranscriptFiles ==
    {NoTranscript, [readable |-> TRUE, lines |-> <<BlankLine>>]}
        \cup {[readable |-> TRUE, lines |-> ls] :
                 ls \in UNION {[1..n -> TranscriptLines] :
                                 n \in 1..MaxTranscriptLines}}

Init ==
    /\ pc = "start"
    /\ input \in Inputs
    /\ userConfig \in UserConfigs
    /\ environ = NoEnv
    /\ projectConfig = AbsentConfig
    /\ git = NoGit
    /\ transcript = NoTranscript
    /\ found = NoneFound
    /\ result = Pending
    /\ lines = << >>
    /\ tokenStats = NoStats
    /\ RenderIdle

\* Lines 537-548: the built-in theme, then the user's.
ResolveTheme ==
    /\ pc = "start"
    /\ \E env \in Environs :
          /\ environ' = env
          /\ LET r == getProjectThemeConfig(userConfig)
             IN  /\ theme' = IF r.found THEN r.theme ELSE effectiveTheme(env)
                 /\ styleName' = r.style
    /\ pc' = "themed"
    /\ UNCHANGED <<tokVars, variables, scripts, parts, output, input,
                   userConfig, projectConfig, git, transcript, found, result>>

\* Line 551: input.workspace is missing, the read throws.
WorkDirThrows ==
    /\ pc = "themed"
    /\ input.kind = "no_workspace"
    /\ result' = OnError
    /\ pc' = "done"
    /\ UNCHANGED <<tokVars, renderVars, input, environ, userConfig,
                   projectConfig, git, transcript, found>>

\* Lines 552-567: the git query, then the transcript cannot be read.
TranscriptThrows ==
    /\ pc = "themed"
    /\ input.kind # "no_workspace"
    /\ \E g \in GitResults :
          /\ git' = g
          /\ found' = [found EXCEPT
                          !.gitBranch = IF g.ok THEN g.branch ELSE << >>]
    /\ transcript' = NoTranscript
    /\ result' = OnError
    /\ pc' = "done"
    /\ UNCHANGED <<tokVars, renderVars, input, environ, userConfig,
                   projectConfig>>

\* Lines 552-594: the git query, the transcript, the token statistics and
\* the last assistant message.
ReadTranscript ==
    /\ pc = "themed"
    /\ input.kind # "no_workspace"
    /\ \E g \in GitResults, t \in TranscriptFiles :
          /\ t.readable
          /\ git' = g
          /\ transcript' = t
          /\ lines' = t.lines
          /\ tokenStats' = calculateTotalTokens(t.lines)
          /\ LET a == LastAssistant(t.lines, Len(t.lines))
             IN  found' = [gitBranch |-> IF g.ok THEN g.branch ELSE << >>,
                           model |-> a.model,
                           inputTokens |-> a.inputTokens,
                           outputTokens |-> a.outputTokens]
    /\ pc' = "scanned"
    /\ UNCHANGED <<renderVars, input, environ, userConfig, projectConfig,
                   result>>

\* Lines 596-654 when the transcript named the model.
BindTranscriptModel ==
    /\ pc = "scanned"
    /\ found.model # << >>
    /\ variables' = BindVariables(input.current_dir, found.gitBranch,
                                  found.model, found.inputTokens,
                                  found.outputTokens, tokenStats)
    /\ pc' = "bound"
    /\ UNCHANGED <<tokVars, theme, scripts, styleName, parts, output,
                   pipeVars>>

\* Lines 596-654 when it did not: the configuration, then display_name.
BindConfigModel ==
    /\ pc = "scanned"
    /\ found.model = << >>
    /\ \E project \in ProjectConfigs :
          /\ projectConfig' = project
          /\ LET m == ConfigModel(project, userConfig)
             IN  \/ /\ m # << >> \/ input.kind # "no_model"
                    /\ found' = [found EXCEPT
                                    !.model = IF m # << >> THEN m
                                              ELSE input.display_name]
                    /\ variables' =
                          BindVariables(input.current_dir, found.gitBranch,
                                        found'.model, found.inputTokens,
                                        found.outputTokens, tokenStats)
                    /\ pc' = "bound"
                    /\ UNCHANGED result
                 \/ /\ m = << >> /\ input.kind = "no_model"  \* line 628
                    /\ result' = OnError
                    /\ pc' = "done"
                    /\ UNCHANGED <<found, variables>>
    /\ UNCHANGED <<tokVars, theme, scripts, styleName, parts, output, input,
                   environ, userConfig, git, transcript>>

HasScript(th) ==
    \E i \in 1..Len(th.modules) : th.modules[i].type = "script"

\* Lines 656-668: the renderer of the style, and the catch.
Render ==
    /\ pc = "bound"
    /\ \E sc \in [{"/s.js"} -> ScriptBehaviours] :
          /\ HasScript(theme) \/ sc["/s.js"].kind = "missing"
          /\ scripts' = sc
          /\ LET isPowerline == styleName = "powerline"
                 r == IF isPowerline
                      THEN renderPowerlineStyle(theme, variables, sc)
                      ELSE renderDefaultStyle(theme, variables, sc)
             IN  IF r.threw
                 THEN /\ result' = OnError
                      /\ UNCHANGED <<parts, output>>
                 ELSE /\ parts' = r.parts
                      /\ output' = Join(r.parts, IF isPowerline THEN << >>
                                                 ELSE Txt(" "))
                      /\ result' = Returned(output')
    /\ pc' = "done"
    /\ UNCHANGED <<tokVars, theme, variables, styleName, input, environ,
                   userConfig, projectConfig, git, transcript, found>>

Next ==
    \/ ResolveTheme
    \/ WorkDirThrows
    \/ TranscriptThrows
    \/ ReadTranscript
    \/ BindTranscriptModel
    \/ BindConfigModel
    \/ Render

Spec == Init /\ [][Next]_vars

---------------------------------------------------------------------------
(* Claims about calculateTotalTokens, under SpecTokens *)

TokDone == pc = "tok_done"

CarriesUsage(l) == l.kind = "json" /\ l.usage.has

Min(a, b) == IF a < b THEN a ELSE b

\* ls with line m put in front of position p
InsertAt(ls, p, m) == SubSeq(ls, 1, p - 1) \o <<m>> \o SubSeq(ls, p, Len(ls))

\* The last line of ls that parses to a record, NoUsage when there is none
\* or when it carries no usage.
RECURSIVE LastParseableUsage(_)
LastParseableUsage(ls) ==
    IF ls = << >> THEN NoUsage
    ELSE IF ls[Len(ls)].kind = "json" THEN ls[Len(ls)].usage
    ELSE LastParseableUsage(SubSeq(ls, 1, Len(ls) - 1))

\* C2: for every transcript the returned TokenStats has totalUsed >= 0,
\* totalRemaining >= 0 and totalUsed + totalRemaining = 200000, in the
\* cache-read branch and in the summed input+output branch.
C2_TokenStatsInvariant ==
    TokDone =>
        /\ tokenStats.totalUsed >= 0
        /\ tokenStats.totalRemaining >= 0
        /\ tokenStats.totalUsed + tokenStats.totalRemaining = 200000

\* C3 as stated: when the last parseable record has cache_read_input_tokens
\* > 0, totalUsed is min(200000, cache_read + input + output +
\* cache_creation) of that record and totalRemaining is 200000 - totalUsed,
\* whatever lines precede or follow the record.
C3_LastParseableRecord ==
    TokDone =>
        LET u == LastParseableUsage(lines)
        IN  u.cr > 0 =>
                /\ tokenStats.totalUsed
                       = Min(200000, u.cr + u.inp + u.out + u.cc)
                /\ tokenStats.totalRemaining = 200000 - tokenStats.totalUsed

\* C3 amended: when the LAST LINE of the transcript is a parseable record
\* with cache_read_input_tokens > 0, totalUsed is min(200000, cache_read +
\* input + output + cache_creation) of that record and totalRemaining is
\* 200000 - totalUsed, whatever lines precede it.
C3_LastLineRecord ==
    TokDone /\ Len(lines) > 0 =>
        LET l == lines[Len(lines)]
        IN  l.kind = "json" /\ l.usage.has /\ l.usage.cr > 0 =>
                /\ tokenStats.totalUsed
                       = Min(200000, l.usage.cr + l.usage.inp
                                         + l.usage.out + l.usage.cc)
                /\ tokenStats.totalRemaining = 200000 - tokenStats.totalUsed

\* A transcript that ends in a cache-read record over the ceiling, after a
\* malformed line and another usage record: totalUsed is clamped.
C3_Witness ==
    /\ TokDone
    /\ Len(lines) = 3
    /\ lines[1].kind = "bad"
    /\ CarriesUsage(lines[2])
    /\ CarriesUsage(lines[3])
    /\ lines[3].usage.cr = 190000
    /\ lines[3].usage.inp + lines[3].usage.out + lines[3].usage.cc > 10000
    /\ tokenStats.totalUsed = 200000
    /\ tokenStats.totalRemaining = 0

\* C4: when no line parses to a record carrying message.usage, the call
\* completes without raising and yields totalUsed = 138000, totalRemaining
\* = 62000, maxTokensFormatted = "200k"; and putting a malformed line
\* anywhere but at the last position of a transcript never changes the
\* result.
C4_NoUsageDefaults ==
    TokDone =>
        /\ ~tokenStats.raised
        /\ (\A i \in 1..Len(lines) : ~CarriesUsage(lines[i])) =>
                /\ tokenStats.totalUsed = 138000
                /\ tokenStats.totalRemaining = 62000
                /\ tokenStats.maxTokensFormatted
                       = <<[k |-> "num", s |-> "k", c |-> <<200>>]>>
        /\ \A p \in 1..Len(lines) : \A m \in MalformedLines :
                calculateTotalTokens(InsertAt(lines, p, m)) = tokenStats

\* A transcript of malformed and blank lines only has been accounted.
C4_Witness ==
    /\ TokDone
    /\ Len(lines) = 3
    /\ lines[1].kind = "bad"
    /\ lines[2].kind = "blank"
    /\ lines[3].kind = "null"
    /\ tokenStats.totalUsed = 138000

---------------------------------------------------------------------------
(* Claims about parseStatusLineData, under Spec *)

Done == pc = "done"

\* A failure reached the catch of parseStatusLineData: the input has no
\* workspace, the transcript could not be read, no model name was found
\* and the input has no model, or theme.modules is a string.
TopLevelFailure ==
    \/ input.kind = "no_workspace"
    \/ ~transcript.readable
    \/ input.kind = "no_model" /\ found.model = << >>
    \/ theme.mk = "string"

\* C1: parseStatusLineData never propagates an error: whatever the input
\* and whichever sub-steps fail, the call goes on until it returns, it
\* returns a string, and the string is empty whenever a failure reached the
\* top level.
C1_NeverPropagates ==
    /\ ~Done => result = Pending /\ ENABLED Next
    /\ Done =>
          /\ result.state = "returned"
          /\ TopLevelFailure => result.value = << >>

\* The configuration is malformed, the git query failed and the transcript
\* cannot be read: the call returned the empty string.
C1_Witness ==
    /\ Done
    /\ userConfig.state = "malformed"
    /\ ~git.ok
    /\ ~transcript.readable
    /\ input.kind = "ok"
    /\ result = [state |-> "returned", value |-> << >>]

\* The sub-section of the user's configuration that currentStyle names.
HasCurrentSection ==
    /\ userConfig.state = "parsed"
    /\ userConfig.StatusLine.has
    /\ SectionName(userConfig.StatusLine.currentStyle)
          \in DOMAIN userConfig.StatusLine.sections
CurrentSection ==
    userConfig.StatusLine.sections[
        SectionName(userConfig.StatusLine.currentStyle)]

\* C8 as stated: the user's theme is returned, with styleName =
\* currentStyle, exactly when the configuration is readable and parseable,
\* has a StatusLine section and the sub-section named currentStyle holds a
\* non-empty modules sequence; otherwise the built-in theme is returned
\* with styleName = "default".
C8_NonEmptyModules ==
    pc # "start" =>
        IF /\ HasCurrentSection
           /\ CurrentSection.mk = "array"
           /\ Len(CurrentSection.modules) > 0
        THEN /\ theme = CurrentSection
             /\ styleName = SectionName(userConfig.StatusLine.currentStyle)
        ELSE /\ theme \in {DEFAULT_THEME, SIMPLE_THEME}
             /\ styleName = "default"

\* C8 amended: the user's theme is returned, with styleName = currentStyle,
\* exactly when the configuration is readable and parseable, has a
\* StatusLine section and the sub-section named currentStyle has a modules
\* value that is truthy, an empty sequence included; otherwise the
\* built-in theme is returned with styleName = "default".  So the
\* powerline style is only ever selected together with the user's
\* powerline sub-section.
C8_TruthyModules ==
    pc # "start" =>
        /\ IF HasCurrentSection /\ CurrentSection.mk # "missing"
           THEN /\ theme = CurrentSection
                /\ styleName
                      = SectionName(userConfig.StatusLine.currentStyle)
           ELSE /\ theme \in {DEFAULT_THEME, SIMPLE_THEME}
                /\ styleName = "default"
        /\ styleName = "powerline" =>
              /\ HasCurrentSection
              /\ userConfig.StatusLine.currentStyle = "powerline"
              /\ theme = userConfig.StatusLine.sections["powerline"]

\* The user's powerline theme has been resolved.
C8_Witness ==
    /\ pc = "themed"
    /\ userConfig.StatusLine.has
    /\ userConfig.StatusLine.currentStyle = "powerline"
    /\ theme = Theme(UserModules)
    /\ styleName = "powerline"

\* The model id of the most recent transcript record with type "assistant"
\* and a model field.
TranscriptModel ==
    LET named == {i \in 1..Len(lines) :
                     /\ lines[i].kind = "json"
                     /\ lines[i].type = "assistant"
                     /\ lines[i].model # ""}
    IN  IF named = {} THEN << >>
        ELSE Txt(lines[CHOOSE i \in named : \A j \in named : j <= i].model)

FirstNonEmpty(candidates) ==
    LET nonEmpty == SelectSeq(candidates, LAMBDA c : c # << >>)
    IN  IF nonEmpty = << >> THEN << >> ELSE nonEmpty[1]

\* C9 as stated: the model variable is the first of (1) the transcript's
\* model, (2) the project configuration's Router.default model, (3) the
\* user configuration's, (4) input.model.display_name that yields a name.
C9_FirstMatchWins ==
    pc = "bound" =>
        variables.model
            = FirstNonEmpty(<<TranscriptModel, RouterModel(projectConfig),
                              RouterModel(userConfig), input.display_name>>)

\* C9 amended: the model variable is the transcript's model when there is
\* one; else the project configuration's Router.default model when the
\* project file can be accessed, and the user configuration's only when
\* it cannot; else input.model.display_name.  A project file that can be
\* accessed and yields no model name is followed by display_name, not by
\* the user configuration.
C9_ProjectShadowsUser ==
    pc = "bound" =>
        variables.model
            = FirstNonEmpty(<<TranscriptModel,
                              IF projectConfig.state # "absent"
                              THEN RouterModel(projectConfig)
                              ELSE RouterModel(userConfig),
                              input.display_name>>)

\* No model in the transcript, a project file that cannot be parsed, a
\* user configuration that names a model: display_name is bound.
C9_Witness ==
    /\ pc = "bound"
    /\ TranscriptModel = << >>
    /\ projectConfig.state = "malformed"
    /\ RouterModel(userConfig) # << >>
    /\ variables.model = input.display_name
    /\ variables.model # << >>

---------------------------------------------------------------------------
(* Claims about the renderers, under SpecRender *)

RenderDone == pc = "render_done"

\* The string the renderer of a style returns.
Rendered(style, th, vmap, files) ==
    IF style = "powerline"
    THEN Join(renderPowerlineStyle(th, vmap, files).parts, << >>)
    ELSE Join(renderDefaultStyle(th, vmap, files).parts, Txt(" "))

FirstModules(ms, n) == SubSeq(ms, 1, Min(Len(ms), n))

\* The positions, among the first five, of the modules whose acquired text
\* is not empty, in order.
ShownIndices(ms, vmap, files) ==
    SelectSeq([i \in 1..Min(Len(ms), 5) |-> i],
              LAMBDA i : ModuleText(ms[i], vmap, files) # << >>)

\* Whether string t occurs in string f
Occurs(t, f) ==
    \E off \in 0..(Len(f) - Len(t)) : SubSeq(f, off + 1, off + Len(t)) = t

\* What follows the body of a powerline segment: the body ends at the
\* first reset.
ResetAtom == [k |-> "sgr", s |-> "", c |-> <<0>>]
BodyEnd(seg) ==
    CHOOSE i \in 1..Len(seg) :
        seg[i] = ResetAtom /\ \A j \in 1..(i - 1) : seg[j] # ResetAtom
AfterBody(seg) == SubSeq(seg, BodyEnd(seg) + 1, Len(seg))

\* A separator glyph drawn in colour fg on background bg.
Separator(fg, bg) ==
    << [k |-> "38;2", s |-> "", c |-> fg], [k |-> "48;2", s |-> "", c |-> bg],
       [k |-> "txt", s |-> "E0B0", c |-> << >>], ResetAtom >>

Resolvable(t) == t # NoColor /\ getTrueColorRgb(t) # NullRgb

\* C5: in both styles modules after the fifth are ignored: the string
\* rendered for a theme with more than five modules equals the string
\* rendered for the theme truncated to its first five modules.
C5_ExtraModulesIgnored ==
    RenderDone /\ theme.mk = "array" /\ Len(theme.modules) > 5 =>
        output = Rendered(styleName, Theme(FirstModules(theme.modules, 5)),
                          variables, scripts)

\* C6: in both styles a module among the first five contributes a fragment
\* if and only if its acquired text is not empty: the fragments are, in
\* order, those of the modules with non-empty text, each carrying its
\* module's text; an empty text is skipped whatever the icon, a non-empty
\* text is rendered without an icon too.
C6_FragmentIffText ==
    RenderDone /\ theme.mk = "array" =>
        LET shown == ShownIndices(theme.modules, variables, scripts)
        IN  /\ Len(parts) = Len(shown)
            /\ \A k \in 1..Len(shown) :
                   Occurs(ModuleText(theme.modules[shown[k]], variables,
                                     scripts), parts[k])

\* A theme has been rendered in which a module with an icon and an empty
\* text (no git branch) was skipped and a module with a text and no icon
\* was rendered.
C6_Witness ==
    /\ RenderDone
    /\ theme = Theme(<<GitModule, ModelModule>>)
    /\ variables.gitBranch = << >>
    /\ Len(parts) = 1
    /\ Occurs(Txt("m1"), parts[1])
    /\ output # << >>

\* C7: in powerline rendering of a theme whose modules all have non-empty
\* text and resolvable backgrounds, every segment but the last is followed
\* by exactly one separator, drawn in the segment's own background RGB on
\* the RGB of the next module's background, and the last segment is
\* followed by no separator.
C7_SeparatorsBetweenSegments ==
    /\ RenderDone /\ styleName = "powerline" /\ theme.mk = "array"
    /\ \A i \in 1..Len(theme.modules) :
           /\ ModuleText(theme.modules[i], variables, scripts) # << >>
           /\ Resolvable(theme.modules[i].background)
    => \A k \in 1..Len(parts) :
           AfterBody(parts[k])
               = IF k < Len(parts)
                 THEN Separator(getTrueColorRgb(theme.modules[k].background),
                                getTrueColorRgb(
                                    theme.modules[k + 1].background))
                 ELSE << >>

\* C10: in powerline rendering a rendered segment with a resolvable own
\* background that has no next module in the list, or whose next module's
\* background is absent or cannot be resolved, is followed by a separator
\* drawn in the segment's background RGB on black.
C10_BlackCap ==
    RenderDone /\ styleName = "powerline" /\ theme.mk = "array" =>
        LET ms == theme.modules
            shown == ShownIndices(ms, variables, scripts)
        IN  \A k \in 1..Len(parts) :
                LET i == shown[k] IN
                /\ Resolvable(ms[i].background)
                /\ \/ i = Len(ms)
                   \/ i < Len(ms) /\ ~Resolvable(ms[i + 1].background)
                => AfterBody(parts[k])
                       = Separator(getTrueColorRgb(ms[i].background),
                                   <<0, 0, 0>>)

\* The body of a powerline segment: up to and including its first reset.
Body(seg) == SubSeq(seg, 1, BodyEnd(seg))

\* The background a powerline segment is asked to use: the module's own,
\* or the accent colour when it declares none.
OwnBackground(module) ==
    IF module.background # NoColor THEN module.background
    ELSE Named("bg_bright_blue")

\* C11: powerline rendering never omits a segment because of colour
\* resolution: there are as many segments as modules among the first five
\* with non-empty text, whatever their colour tokens, and a module whose
\* own background cannot be resolved to RGB is emitted on the fixed blue
\* (33,150,243) with white (255,255,255) text.
C11_ResolvableOrDefault ==
    RenderDone /\ styleName = "powerline" /\ theme.mk = "array" =>
        LET ms == theme.modules
            shown == ShownIndices(ms, variables, scripts)
        IN  /\ Len(parts) = Len(shown)
            /\ \A k \in 1..Len(shown) :
                   getTrueColorRgb(OwnBackground(ms[shown[k]])) = NullRgb =>
                       Body(parts[k])
                           = << [k |-> "48;2", s |-> "", c |-> <<33, 150, 243>>],
                                [k |-> "38;2", s |-> "",
                                 c |-> <<255, 255, 255>>] >>
                             \o Txt(" ")
                             \o DisplayText(ms[shown[k]].icon,
                                            ModuleText(ms[shown[k]],
                                                       variables, scripts))
                             \o Txt(" ") \o <<ResetAtom>>

\* A script module with an unknown background name and an unknown colour
\* name, whose script returned a text, was rendered between two modules
\* with resolvable backgrounds.
C11_Witness ==
    /\ RenderDone /\ styleName = "powerline"
    /\ theme = Theme(<<WorkDirModule, ScriptModule, WorkDirModule>>)
    /\ scripts["/s.js"].kind = "function"
    /\ Len(parts) = 3
    /\ parts[2][1] = [k |-> "48;2", s |-> "", c |-> <<33, 150, 243>>]

\* The background RGB a powerline segment is actually drawn on.
ActualRgb(module) ==
    LET rgb == getTrueColorRgb(OwnBackground(module))
    IN  IF rgb = NullRgb THEN <<33, 150, 243>> ELSE rgb

\* C12: in powerline output every two segments rendered consecutively have
\* a separator between them, drawn in the background RGB actually used by
\* the earlier segment on the background RGB actually used by the later
\* one, also when modules between them were skipped for empty text and
\* when a segment uses the accent background because its module declares
\* none.
C12_SeparatorMatchesNeighbours ==
    RenderDone /\ styleName = "powerline" /\ theme.mk = "array" =>
        LET ms == theme.modules
            shown == ShownIndices(ms, variables, scripts)
        IN  \A k \in 1..(Len(parts) - 1) :
                AfterBody(parts[k])
                    = Separator(ActualRgb(ms[shown[k]]),
                                ActualRgb(ms[shown[k + 1]]))

---------------------------------------------------------------------------
(* Claims about the binding of the variables, under Spec *)

\* The status line was rendered from variables bound from their own
\* sources: the directory from the input, the branch from the git query
\* (empty when it failed), a model name from the transcript, the
\* configuration or the input.
BoundAndRendered ==
    /\ result.state = "returned"
    /\ variables # NoVariables
    /\ variables.workDirName = LastSegment(input.current_dir)
    /\ variables.gitBranch = (IF git.ok THEN git.branch ELSE << >>)
    /\ variables.model # << >>
    /\ result.value = Rendered(styleName, theme, variables, scripts)

\* C13: a failure in one sub-step of variable binding (the git query, the
\* read of the transcript file, the read of the project or user
\* configuration) empties only the variables that depend on it: for a
\* well-formed input and a usable theme the other variables are bound
\* from their own sources and the status line is rendered from them.
C13_SubStepFailureIsLocal ==
    Done /\ input.kind = "ok" /\ theme.mk # "string" => BoundAndRendered

---------------------------------------------------------------------------
(* Claims about script modules, under SpecRender *)

\* The script at "/s.js" fails: the file is missing, loading or calling it
\* throws, its promise rejects, or its export is neither callable nor a
\* string.
ScriptFails ==
    /\ "/s.js" \in DOMAIN scripts
    /\ scripts["/s.js"].kind \in {"missing", "throws", "rejects", "object"}

\* The same path holding a function that returns the empty string.
EmptyScripts == [p \in {"/s.js"} |-> Script("function", << >>)]

\* The positions, among the first five, of the modules that are no script
\* modules and have a non-empty text, in order.
ShownPlainIndices(ms, vmap) ==
    SelectSeq([i \in 1..Min(Len(ms), 5) |-> i],
              LAMBDA i : /\ ms[i].type # "script"
                         /\ replaceVariables(ms[i].text, vmap) # << >>)

\* C14: when a script module fails, its text is treated as empty and the
\* render goes on: neither renderer raises (so the top-level fallback is
\* not taken), the failing module is skipped, and the output is exactly
\* the one rendered had the script returned the empty string.
C14_ScriptFailureIsEmptyText ==
    ScriptFails =>
        /\ ~renderDefaultStyle(theme, variables, scripts).threw
        /\ ~renderPowerlineStyle(theme, variables, scripts).threw
        /\ RenderDone =>
              /\ output = Rendered(styleName, theme, variables, EmptyScripts)
              /\ theme.mk = "array" =>
                    Len(parts)
                        = Len(ShownPlainIndices(theme.modules, variables))

\* A theme with a script module between two other modules was rendered
\* while the script threw: the two other modules are the output.
C14_Witness ==
    /\ RenderDone
    /\ theme = Theme(<<WorkDirModule, ScriptModule, ModelModule>>)
    /\ scripts["/s.js"].kind = "throws"
    /\ Len(parts) = 2
    /\ Occurs(Txt("proj"), parts[1])
    /\ Occurs(Txt("m1"), parts[2])

---------------------------------------------------------------------------
(* Claims about the colours of the default style, under SpecRender *)

\* A token that is a valid hex colour: "#rgb", "#rrggbb", "rgb" or "rrggbb"
ValidHex(t) == LooksHex(t) /\ hexToRgb(t.hex) # NullRgb

\* C15: in default-style rendering the background fragment of a rendered
\* module sets the background colour only: for a module whose background
\* is a valid hex token the fragment starts with the 24-bit background
\* escape 48;2;r;g;b of that value, never with a foreground escape 38;2.
C15_HexBackgroundIsBackground ==
    RenderDone /\ styleName = "default" /\ theme.mk = "array" =>
        LET ms == theme.modules
            shown == ShownIndices(ms, variables, scripts)
        IN  \A k \in 1..Len(parts) :
                ValidHex(ms[shown[k]].background) =>
                    parts[k][1] = [k |-> "48;2", s |-> "",
                                   c |-> hexToRgb(ms[shown[k]].background.hex)]

===========================================================================
